---- MODULE Spec2Model ----
(***************************************************************************)
(* Gradient boosting ensemble of neural base learners                      *)
(* (ensemble/gradientboostingclassifier.py, model/lenet5.py).              *)
(*                                                                         *)
(* Control.  One thread of control; pc is its position.  fit advances one  *)
(* statement group at a time (residual, forward, zero_grad + backward,     *)
(* step), evaluate one batch at a time.                                    *)
(*                                                                         *)
(* Numbers.  Learner outputs are integers.  shrinkage_rate is a multiple   *)
(* of 1/ShrinkUnit, so every logit tensor is kept in units of 1/ShrinkUnit.*)
(* A softmax entry and a residual entry are exact fractions <<num, den>>   *)
(* over a three-decimal fixed-point exponential.  A tensor of shape (B, D) *)
(* is a sequence of B rows of length D; class c is column c + 1.           *)
(*                                                                         *)
(* Library behaviour.  A learner's parameters are one weight w.  An Adam   *)
(* step may give the bound parameters any value of PVals.  A dropout call  *)
(* draws one mask value for its activation tensor.  A .grad accumulator is *)
(* the number of backward passes accumulated since it was last zeroed.     *)
(* The loss value and the status lines are not part of the state.          *)
(***************************************************************************)
EXTENDS Integers, Sequences, FiniteSets, TLC

\* ---------------------------------------------------------------- bounds
MaxEstimators == 2
MaxEpochs == 2
MaxOutputDim == 2
MaxData == 3
ParamMax == 1

\* shrinkage_rate = args.shrinkage_rate / ShrinkUnit
ShrinkUnit == 2

BatchSizes == {2}
\* the values a learner's parameter takes: a negative and a positive weight
PVals == {0 - ParamMax, ParamMax}

\* ---------------------------------------------------------------- data
\* A DataLoader over a dataset of n examples; example i has input pattern
\* and label (i-1) mod D.
Loaders ==
  [n : 1..MaxData, batch_size : BatchSizes, drop_last : BOOLEAN]

\* no loader in scope
NoLoader == [n |-> 1, batch_size |-> 2, drop_last |-> FALSE]

DatasetLen(ld) == ld.n

NumBatches(ld) ==
  IF ld.drop_last THEN ld.n \div ld.batch_size
  ELSE (ld.n + ld.batch_size - 1) \div ld.batch_size

Modulo(a, D) == IF D > 0 THEN a % D ELSE 0

\* indices of the examples of batch b (0-based batch index)
BatchIdx(ld, b) ==
  LET lo == b * ld.batch_size + 1
      hi == IF (b + 1) * ld.batch_size < ld.n THEN (b + 1) * ld.batch_size ELSE ld.n
  IN  [r \in 1..(hi - lo + 1) |-> lo + r - 1]

BatchX(ld, b, D) ==
  LET ix == BatchIdx(ld, b) IN [r \in DOMAIN ix |-> Modulo(ix[r] - 1, D)]

BatchY(ld, b, D) ==
  LET ix == BatchIdx(ld, b) IN [r \in DOMAIN ix |-> Modulo(ix[r] - 1, D)]

\* ---------------------------------------------------------------- tensors
Zeros(B, D) == [b \in 1..B |-> [j \in 1..D |-> 0]]

\* acc += s * t
AddScaled(acc, s, t) ==
  [b \in DOMAIN acc |-> [j \in DOMAIN acc[b] |-> acc[b][j] + s * t[b][j]]]

RECURSIVE SumSeq(_)
SumSeq(s) == IF s = <<>> THEN 0 ELSE Head(s) + SumSeq(Tail(s))

MaxOf(row) == CHOOSE v \in {row[j] : j \in DOMAIN row} : \A j \in DOMAIN row : row[j] <= v

\* output.data.max(1)[1]: the first index holding the maximum, as a class
ArgMax(row) ==
  (CHOOSE j \in DOMAIN row :
      /\ row[j] = MaxOf(row)
      /\ \A i \in DOMAIN row : row[i] = MaxOf(row) => j <= i) - 1

\* round(1000 * e^(-h / 2)), h >= 0 in logit units
RECURSIVE ExpNeg(_)
ExpNeg(h) == IF h <= 0 THEN 1000 ELSE (ExpNeg(h - 1) * 607) \div 1000

\* F.softmax(row, dim=1): exp(z - max z) / sum exp(z - max z)
Softmax(row) ==
  LET mx == MaxOf(row)
      e  == [j \in DOMAIN row |-> ExpNeg(mx - row[j])]
      S  == SumSeq(e)
  IN  [j \in DOMAIN row |-> <<e[j], S>>]

\* ---------------------------------------------------------------- learner
Relu(v) == IF v > 0 THEN v ELSE 0

\* The training flag F.dropout receives.  LeNet5.forward calls
\* F.dropout(output) with the default training=True, whatever the mode of
\* the module is.
F_dropout_training(module_training) == TRUE

\* F.dropout(v, p=0.5, training): kept entries are scaled by 1/(1-p) = 2,
\* dropped ones are zeroed; m is the mask drawn by the call
F_dropout(v, training, m) == IF training THEN m * v ELSE v

\* the masks one dropout call can draw (one value for the activation tensor)
DropMasks == {0, 2}

\* LeNet5.forward: feature extraction, two dropout layers, output layer.
\* The convolution stack is a fixed detector of the input pattern; w stands
\* for the trainable parameters.
LeNet5_forward(w, X, D, module_training, m1, m2) ==
  [b \in DOMAIN X |->
     [j \in 1..D |->
        LET f1 == Relu(IF X[b] = j - 1 THEN 1 ELSE 0)
            d1 == F_dropout(f1, F_dropout_training(module_training), m1)
            f2 == Relu(d1)
            d2 == F_dropout(f2, F_dropout_training(module_training), m2)
        IN  w * d2]]

\* nn.Linear(84, output_dim) accepts a zero width and rejects a negative one
LeNet5_init_ok(D) == D >= 0

\* ---------------------------------------------------------------- state
VARIABLES
  pc,                \* position of the single thread of control
  args,              \* configuration mapping given to the constructor
  learners,          \* self.learners: sequence of [id, w]
  training,          \* self.training
  grad_enabled,      \* torch.is_grad_enabled()
  grad,              \* per learner: backward passes accumulated in .grad
  loader,            \* the loader of the running / last fit or evaluate
  learner_idx, epoch, batch_idx,
  learner_optimizer, \* [bound: learner indices it updates, t: steps taken]
  y_residual,        \* target of the current training step
  passes,            \* learner forward passes of the current step
  X_in,              \* the input batch of the last forward call
  y_pred,            \* result of forward / predict
  correct, accuracy, \* evaluate: accumulator and reported value <<num, den>>
  done,              \* last operation that returned
  steps,             \* history: optimizer steps per learner in this fit
  consumed,          \* history: batch indices consumed in this epoch
  seen               \* history: evaluate rows <<predicted, label>>

vars == <<pc, args, learners, training, grad_enabled, grad, loader,
          learner_idx, epoch, batch_idx, learner_optimizer, y_residual,
          passes, X_in, y_pred, correct, accuracy, done, steps, consumed,
          seen>>

NoOptimizer == [bound |-> {}, t |-> 0]
NoAccuracy == <<0, 0>>

N == Len(learners)
D == args.output_dim

\* ---------------------------------------------------------------- construction
\* args accepted by the configuration surface
ValidArgs ==
  [has_output_dim : {TRUE}, output_dim : 1..MaxOutputDim,
   n_estimators : 1..MaxEstimators, epochs : 1..MaxEpochs,
   shrinkage_rate : 1..ShrinkUnit]

\* args a caller can pass
AnyArgs ==
  [has_output_dim : BOOLEAN, output_dim : (0 - 1)..MaxOutputDim,
   n_estimators : (0 - 1)..MaxEstimators, epochs : 1..MaxEpochs,
   shrinkage_rate : 1..ShrinkUnit]

InitWith(A) ==
  /\ args \in A
  /\ pc = "new"
  /\ learners = <<>>
  /\ training = TRUE
  /\ grad_enabled = TRUE
  /\ grad = <<>>
  /\ loader = NoLoader
  /\ learner_idx = 0 /\ epoch = 0 /\ batch_idx = 0
  /\ learner_optimizer = NoOptimizer
  /\ y_residual = <<>>
  /\ passes = <<>>
  /\ X_in = <<>>
  /\ y_pred = <<>>
  /\ correct = 0 /\ accuracy = NoAccuracy
  /\ done = "none"
  /\ steps = <<>>
  /\ consumed = <<>>
  /\ seen = <<>>

\* range(n)
Range(n) == IF n > 0 THEN n ELSE 0

\* variant: one learner instance placed at every position
AppendLearners_shared(ls, n, ws) ==
  [i \in 1..Range(n) |-> [id |-> 1, w |-> ws[1]]]

\* for _ in range(self.n_estimators): self.learners.append(learner(learner_args))
RECURSIVE AppendLearners(_, _, _)
AppendLearners(ls, n, ws) ==
  IF Len(ls) >= Range(n) THEN ls
  ELSE AppendLearners(Append(ls, [id |-> Len(ls) + 1, w |-> ws[Len(ls) + 1]]), n, ws)

\* __init__
Construct ==
  /\ pc = "new"
  /\ IF ~args.has_output_dim \/ (Range(args.n_estimators) > 0 /\ ~LeNet5_init_ok(D))
     THEN \* KeyError on args["output_dim"], or the learner constructor raises
          /\ pc' = "error"
          /\ UNCHANGED <<learners, grad>>
     ELSE \E ws \in [1..Range(args.n_estimators) -> PVals] :
            /\ learners' = AppendLearners(<<>>, args.n_estimators, ws)
            /\ grad' = [i \in 1..Range(args.n_estimators) |-> 0]
            /\ pc' = "idle"
  /\ UNCHANGED <<args, training, grad_enabled, loader, learner_idx, epoch,
                 batch_idx, learner_optimizer, y_residual, passes, y_pred, X_in,
                 correct, accuracy, done, steps, consumed, seen>>

\* ---------------------------------------------------------------- forward
\* one forward pass per learner, with the dropout masks drawn for it
Pass(i, X, m1, m2) ==
  [idx |-> i - 1,
   grad |-> grad_enabled,
   dropout |-> F_dropout_training(training),
   out |-> LeNet5_forward(learners[i].w, X, D, training, m1, m2)]

\* the results the pass of learner i on X can have, over the mask draws
PassOutcomes(i, X) == {Pass(i, X, m1, m2) : m1 \in DropMasks, m2 \in DropMasks}

\* the passes of learners 1..n on X, in index order, over the mask draws
RECURSIVE PassesOf(_, _)
PassesOf(n, X) ==
  IF n = 0 THEN {<<>>}
  ELSE {Append(ps, p) : ps \in PassesOf(n - 1, X), p \in PassOutcomes(n, X)}

\* for learner in self.learners: y_pred += self.shrinkage_rate * learner(X)
RECURSIVE forward_loop(_, _, _, _)
forward_loop(acc, ps, i, shrink) ==
  IF i > Len(ps) THEN acc
  ELSE forward_loop(AddScaled(acc, shrink, ps[i].out), ps, i + 1, shrink)

\* variant: the learner outputs are summed without the shrinkage factor
forward_unscaled(ps, B) == forward_loop(Zeros(B, D), ps, 1, ShrinkUnit)

\* forward(X), given the passes of the learners
forward(ps, B) == forward_loop(Zeros(B, D), ps, 1, args.shrinkage_rate)

\* BaseModule.predict
predict(ps, B) == forward(ps, B)

\* the input batches a caller can pass
Inputs == {BatchX(ld, b, D) : ld \in {l \in Loaders : NumBatches(l) > 0}, b \in {0}}
             \cup {BatchX(ld, NumBatches(ld) - 1, D) : ld \in {l \in Loaders : NumBatches(l) > 0}}

\* the caller runs the ensemble on one batch: self(X)
Forward ==
  /\ pc = "idle"
  /\ \E X \in Inputs :
       \E ps \in PassesOf(N, X) :
         IF D < 0
         THEN \* torch.zeros(batch_size, output_dim) raises
              /\ pc' = "raised"
              /\ UNCHANGED <<passes, y_pred, done, X_in>>
         ELSE /\ passes' = ps
              /\ X_in' = X
              /\ y_pred' = forward(ps, Len(X))
              /\ done' = "forward"
              /\ pc' = "idle"
  /\ accuracy' = NoAccuracy /\ seen' = <<>> /\ correct' = 0
  /\ steps' = <<>> /\ loader' = NoLoader
  /\ UNCHANGED <<args, learners, training, grad_enabled, grad, learner_idx,
                 epoch, batch_idx, learner_optimizer, y_residual, consumed>>

\* ---------------------------------------------------------------- residual
\* scatter_(1, y.view(-1, 1), 1) needs every index inside the row
scatter_ok(y) == \A b \in DOMAIN y : y[b] >= 0 /\ y[b] < D

\* _onehot_coding: a zeroed (B, output_dim) tensor with a 1 scattered per row
_onehot_coding(y) ==
  LET zeroed == Zeros(Len(y), D)
  IN  [b \in DOMAIN y |-> [j \in DOMAIN zeroed[b] |-> IF j = y[b] + 1 THEN 1 ELSE zeroed[b][j]]]

\* y_onehot - F.softmax(output, dim=1)
MinusSoftmax(y_onehot, output) ==
  [b \in DOMAIN y_onehot |->
     LET sm == Softmax(output[b])
     IN  [j \in DOMAIN y_onehot[b] |-> <<y_onehot[b][j] * sm[j][2] - sm[j][1], sm[j][2]>>]]

\* variant: the learner being trained is included in the partial ensemble
ResidualCount_incl(k) == Range(k + 1)

\* the learners _pseudo_residual runs: for idx in range(learner_idx)
ResidualCount(k) == Range(k)

\* _pseudo_residual(X, y, learner_idx), ps the passes of the learners it runs
_pseudo_residual(ps, y, k) ==
  LET y_onehot == _onehot_coding(y)
      output == Zeros(Len(y), D)
  IN  IF k = 0 THEN MinusSoftmax(y_onehot, output)
      ELSE MinusSoftmax(y_onehot, forward_loop(output, ps, 1, args.shrinkage_rate))

\* ---------------------------------------------------------------- fit
\* variant: the optimizer stays bound to the first learner
Adam_first(k) == [bound |-> {0}, t |-> 0]

\* torch.optim.Adam(learner.parameters(), ...)
Adam(k) == [bound |-> {k}, t |-> 0]

\* variant: the gradients are not zeroed
zero_grad_skip(g, opt) == g

\* learner_optimizer.zero_grad()
zero_grad(g, opt) == [i \in DOMAIN g |-> IF (i - 1) \in opt.bound THEN 0 ELSE g[i]]

\* loss.backward(): every pass recorded with gradient tracking receives a
\* gradient (the loss depends on output and on y_residual)
backward(g, ps) ==
  [i \in DOMAIN g |->
     g[i] + Cardinality({q \in DOMAIN ps : ps[q].idx = i - 1 /\ ps[q].grad})]

\* variant: the step updates the parameters of every learner
step_all(ls, opt, w) == [i \in DOMAIN ls |-> [ls[i] EXCEPT !.w = w]]

\* learner_optimizer.step(): the parameters it is bound to take new values
step(ls, opt, w) ==
  [i \in DOMAIN ls |-> IF (i - 1) \in opt.bound THEN [ls[i] EXCEPT !.w = w] ELSE ls[i]]

HasIterations(ld) == N > 0 /\ args.epochs > 0 /\ NumBatches(ld) > 0

\* fit(train_loader): self.train(), then enter the learner loop
FitBegin ==
  /\ pc = "idle"
  /\ \E ld \in Loaders :
       /\ loader' = ld
       /\ IF HasIterations(ld)
          THEN /\ pc' = "fit_residual"
               /\ learner_optimizer' = Adam(0)
               /\ done' = "none"
          ELSE /\ pc' = "idle"
               /\ learner_optimizer' = NoOptimizer
               /\ done' = "fit"
  /\ training' = TRUE
  /\ learner_idx' = 0 /\ epoch' = 0 /\ batch_idx' = 0
  /\ steps' = [i \in 1..N |-> 0]
  /\ consumed' = <<>>
  /\ y_residual' = <<>> /\ passes' = <<>> /\ y_pred' = <<>> /\ X_in' = <<>>
  /\ correct' = 0 /\ accuracy' = NoAccuracy /\ seen' = <<>>
  /\ UNCHANGED <<args, learners, grad_enabled, grad>>

\* y_residual = self._pseudo_residual(X_train, y_train, learner_idx)
FitResidual ==
  /\ pc = "fit_residual"
  /\ LET X == BatchX(loader, batch_idx, D)
         y == BatchY(loader, batch_idx, D)
     IN  IF ~scatter_ok(y)
         THEN /\ pc' = "raised"
              /\ UNCHANGED <<y_residual, passes, consumed>>
         ELSE \E ps \in PassesOf(ResidualCount(learner_idx), X) :
                    /\ passes' = ps
                    /\ y_residual' = _pseudo_residual(ps, y, learner_idx)
                    /\ consumed' = Append(consumed, batch_idx)
                    /\ pc' = "fit_forward"
  /\ UNCHANGED <<args, learners, training, grad_enabled, grad, loader,
                 learner_idx, epoch, batch_idx, learner_optimizer, y_pred, X_in,
                 correct, accuracy, done, steps, seen>>

\* output = learner(X_train); loss = criterion(output, y_residual)
FitForward ==
  /\ pc = "fit_forward"
  /\ LET X == BatchX(loader, batch_idx, D) IN
     \E p \in PassOutcomes(learner_idx + 1, X) :
       passes' = Append(passes, p)
  /\ pc' = "fit_backward"
  /\ UNCHANGED <<args, learners, training, grad_enabled, grad, loader,
                 learner_idx, epoch, batch_idx, learner_optimizer, y_residual,
                 y_pred, X_in, correct, accuracy, done, steps, consumed, seen>>

\* learner_optimizer.zero_grad(); loss.backward()
FitBackward ==
  /\ pc = "fit_backward"
  /\ grad' = backward(zero_grad(grad, learner_optimizer), passes)
  /\ pc' = "fit_step"
  /\ UNCHANGED <<args, learners, training, grad_enabled, loader, learner_idx,
                 epoch, batch_idx, learner_optimizer, y_residual, passes,
                 y_pred, X_in, correct, accuracy, done, steps, consumed, seen>>

\* learner_optimizer.step(), then the next batch, epoch or learner
FitStep ==
  /\ pc = "fit_step"
  /\ \E w \in PVals : learners' = step(learners, learner_optimizer, w)
  /\ steps' = [steps EXCEPT ![learner_idx + 1] = @ + 1]
  /\ y_residual' = <<>> /\ passes' = <<>>
  /\ IF batch_idx + 1 < NumBatches(loader)
     THEN /\ batch_idx' = batch_idx + 1
          /\ learner_optimizer' = [learner_optimizer EXCEPT !.t = @ + 1]
          /\ pc' = "fit_residual"
          /\ UNCHANGED <<epoch, learner_idx, consumed, done>>
     ELSE IF epoch + 1 < args.epochs
     THEN /\ batch_idx' = 0 /\ epoch' = epoch + 1
          /\ consumed' = <<>>
          /\ learner_optimizer' = [learner_optimizer EXCEPT !.t = @ + 1]
          /\ pc' = "fit_residual"
          /\ UNCHANGED <<learner_idx, done>>
     ELSE IF learner_idx + 1 < N
     THEN /\ batch_idx' = 0 /\ epoch' = 0 /\ learner_idx' = learner_idx + 1
          /\ consumed' = <<>>
          /\ learner_optimizer' = Adam(learner_idx + 1)
          /\ pc' = "fit_residual"
          /\ UNCHANGED done
     ELSE /\ batch_idx' = 0 /\ epoch' = 0 /\ learner_idx' = 0
          /\ consumed' = <<>>
          /\ learner_optimizer' = NoOptimizer
          /\ pc' = "idle"
          /\ done' = "fit"
  /\ UNCHANGED <<args, training, grad_enabled, grad, loader, y_pred, X_in, correct,
                 accuracy, seen>>

\* ---------------------------------------------------------------- evaluate
\* self.eval(); correct = 0.; with torch.no_grad():
EvalBegin ==
  /\ pc = "idle"
  /\ \E ld \in Loaders :
       /\ loader' = ld
       /\ pc' = IF NumBatches(ld) > 0 THEN "eval_batch" ELSE "eval_end"
  /\ training' = FALSE
  /\ grad_enabled' = FALSE
  /\ correct' = 0
  /\ batch_idx' = 0
  /\ seen' = <<>>
  /\ y_pred' = <<>> /\ X_in' = <<>> /\ passes' = <<>> /\ accuracy' = NoAccuracy
  /\ done' = "none"
  /\ steps' = <<>>
  /\ UNCHANGED <<args, learners, grad, learner_idx, epoch, learner_optimizer,
                 y_residual, consumed>>

\* y_pred.eq(y_test.view(-1).data).sum()
CountEq(pred, y) == Cardinality({b \in DOMAIN y : pred[b] = y[b]})

\* output = self.predict(X_test); y_pred = output.data.max(1)[1]; correct += ...
EvalBatch ==
  /\ pc = "eval_batch"
  /\ LET X == BatchX(loader, batch_idx, D)
         y == BatchY(loader, batch_idx, D)
     IN  IF D <= 0
         THEN \* torch.zeros raises on a negative width, max(1) on an empty one
              /\ pc' = "raised"
              /\ UNCHANGED <<passes, y_pred, correct, seen, batch_idx>>
         ELSE \E ps \in PassesOf(N, X) :
                LET output == predict(ps, Len(X))
                    pred == [b \in DOMAIN output |-> ArgMax(output[b])]
                IN  /\ passes' = ps
                    /\ y_pred' = output
                    /\ correct' = correct + CountEq(pred, y)
                    /\ seen' = seen \o [b \in DOMAIN y |-> <<pred[b], y[b]>>]
                    /\ batch_idx' = batch_idx + 1
                    /\ pc' = IF batch_idx + 1 < NumBatches(loader)
                             THEN "eval_batch" ELSE "eval_end"
  /\ UNCHANGED <<args, learners, training, grad_enabled, grad, loader,
                 learner_idx, epoch, learner_optimizer, y_residual, accuracy,
                 done, steps, consumed, X_in>>

\* accuracy = 100. * float(correct) / len(test_loader.dataset)
Accuracy(c, ld) == <<100 * c, DatasetLen(ld)>>

EvalEnd ==
  /\ pc = "eval_end"
  /\ accuracy' = Accuracy(correct, loader)
  /\ grad_enabled' = TRUE
  /\ batch_idx' = 0
  /\ pc' = "idle"
  /\ done' = "evaluate"
  /\ UNCHANGED <<args, learners, training, grad, loader, learner_idx, epoch,
                 learner_optimizer, y_residual, passes, y_pred, X_in, correct,
                 steps, consumed, seen>>

\* ---------------------------------------------------------------- system
Next ==
  \/ Construct
  \/ Forward
  \/ FitBegin \/ FitResidual \/ FitForward \/ FitBackward \/ FitStep
  \/ EvalBegin \/ EvalBatch \/ EvalEnd

\* configurations of the documented configuration surface
Spec == InitWith(ValidArgs) /\ [][Next]_vars

\* every argument mapping a caller can pass
SpecAnyArgs == InitWith(AnyArgs) /\ [][Next]_vars

TypeOK ==
  /\ pc \in {"new", "error", "raised", "idle", "fit_residual", "fit_forward",
             "fit_backward", "fit_step", "eval_batch", "eval_end"}
  /\ Len(grad) = Len(learners)

\* ---------------------------------------------------------------- properties
InFit == pc \in {"fit_residual", "fit_forward", "fit_backward", "fit_step"}
InEval == pc \in {"eval_batch", "eval_end"}

\* sum over the first n passes of shrinkage_rate * learner(X), entry (b, j)
RECURSIVE SumOut(_, _, _, _)
SumOut(ps, n, b, j) ==
  IF n = 0 THEN 0 ELSE SumOut(ps, n - 1, b, j) + args.shrinkage_rate * ps[n].out[b][j]

\* C1: while learner k is being trained, no step of fit changes a parameter
\* of a learner with another index, and the step that updates parameters is
\* taken by learner k's phase only.
C1_OnlyCurrentLearnerChanges ==
  [][InFit =>
       /\ Len(learners') = Len(learners)
       /\ \A i \in 1..Len(learners) :
            i - 1 # learner_idx => learners'[i] = learners[i]
       /\ pc # "fit_step" => learners' = learners]_vars

\* learner 1 is being trained and one of its steps has been applied
C1_Witness ==
  /\ pc = "fit_residual" /\ learner_idx = 1
  /\ steps[2] > 0 /\ steps[1] > 0

\* C2: learners are trained one after the other in ascending order; the
\* optimizer in use was created for the current learner alone at the start
\* of its phase, every earlier learner has received all its steps and no
\* later learner has received any.
C2_Sequential ==
  [][/\ InFit' =>
          /\ learner_optimizer'.bound = {learner_idx'}
          /\ learner_optimizer'.t = epoch' * NumBatches(loader') + batch_idx'
          /\ \A i \in 1..Len(learners') :
               /\ i - 1 < learner_idx' => steps'[i] = args.epochs * NumBatches(loader')
               /\ i - 1 > learner_idx' => steps'[i] = 0
               /\ i - 1 = learner_idx' => steps'[i] = learner_optimizer'.t
     /\ InFit /\ InFit' => learner_idx' \in {learner_idx, learner_idx + 1}
     /\ ~InFit /\ InFit' => learner_idx' = 0]_vars

\* the phase of learner 1 starts with a fresh optimizer of its own
C2_Witness ==
  /\ pc = "fit_residual" /\ learner_idx = 1 /\ epoch = 0 /\ batch_idx = 0
  /\ learner_optimizer = [bound |-> {1}, t |-> 0]
  /\ steps[1] = args.epochs * NumBatches(loader) /\ steps[1] > 1

\* C3: the pseudo-residual of learner k is one-hot(y) minus the softmax of
\* the sum of shrinkage_rate * learner_i(X) over exactly the learners
\* i < k; for k = 0 every entry is one-hot(y) minus 1/output_dim.
C3_Residual ==
  pc = "fit_forward" =>
    LET y == BatchY(loader, batch_idx, D) IN
    /\ Len(passes) = learner_idx
    /\ \A q \in DOMAIN passes : passes[q].idx = q - 1
    /\ Len(y_residual) = Len(y)
    /\ \A b \in DOMAIN y :
         LET logits == [j \in 1..D |-> SumOut(passes, learner_idx, b, j)]
             sm == Softmax(logits)
         IN  /\ Len(y_residual[b]) = D
             /\ \A j \in 1..D :
                  LET onehot == IF y[b] = j - 1 THEN 1 ELSE 0 IN
                  /\ y_residual[b][j] = <<onehot * sm[j][2] - sm[j][1], sm[j][2]>>
                  /\ learner_idx = 0 =>
                       y_residual[b][j][1] * D = (onehot * D - 1) * y_residual[b][j][2]

\* a residual for learner 1 whose softmax is not uniform
C3_Witness ==
  /\ pc = "fit_forward" /\ learner_idx = 1 /\ D > 1
  /\ \E b \in DOMAIN y_residual : \E j \in 1..D :
       /\ passes[1].out[b][j] # 0
       /\ y_residual[b][j][1] * D # ((IF BatchY(loader, batch_idx, D)[b] = j - 1 THEN 1 ELSE 0) * D - 1) * y_residual[b][j][2]

\* C4: forward returns a (B, output_dim) tensor equal to the sum over all
\* learners, in ascending index order, of shrinkage_rate * learner(input),
\* and changes neither the learners nor the mode.
C4_Forward ==
  [][(pc = "idle" /\ pc' = "idle" /\ done' = "forward") =>
       /\ Len(y_pred') = Len(X_in')
       /\ Len(passes') = Len(learners)
       /\ \A q \in DOMAIN passes' : passes'[q].idx = q - 1
       /\ \A b \in DOMAIN y_pred' :
            /\ Len(y_pred'[b]) = D
            /\ \A j \in 1..D : y_pred'[b][j] = SumOut(passes', Len(learners), b, j)
       /\ UNCHANGED <<learners, training, grad_enabled, grad, args>>]_vars

\* two learners both contributed to an entry of the prediction
C4_Witness ==
  /\ pc = "idle" /\ done = "forward" /\ N >= 2
  /\ \E b \in DOMAIN y_pred : \E j \in 1..D :
       /\ passes[1].out[b][j] # 0 /\ passes[2].out[b][j] # 0
       /\ y_pred[b][j] # 0

\* C5: during evaluate the ensemble is in inference mode and every learner
\* forward pass runs with dropout disabled and without gradient tracking.
C5_EvalInference ==
  InEval =>
    /\ ~training /\ ~grad_enabled
    /\ \A q \in DOMAIN passes : ~passes[q].dropout /\ ~passes[q].grad

\* rows of an evaluate pass whose predicted class is the label
Hits(rows) == Cardinality({r \in DOMAIN rows : rows[r][1] = rows[r][2]})

\* C6: evaluate reports 100 * correct / (examples yielded), so 100 when
\* every yielded example is predicted correctly.
C6_Accuracy ==
  (pc = "idle" /\ done = "evaluate") =>
    /\ correct = Hits(seen)
    /\ accuracy[1] * Len(seen) = 100 * Hits(seen) * accuracy[2]
    /\ (Len(seen) > 0 /\ Hits(seen) = Len(seen)) => accuracy[1] = 100 * accuracy[2]

\* C7: construction fails when n_estimators <= 0 or output_dim is missing
\* or not positive.
C7_ConstructionValidates ==
  (pc # "new" /\ (args.n_estimators <= 0 \/ ~args.has_output_dim \/ args.output_dim <= 0))
    => (pc = "error" /\ learners = <<>>)

\* C8: the ensemble holds n_estimators learners, one factory call each, and
\* no operation adds, removes or reorders them.
C8_LearnerSequence ==
  pc \notin {"new", "error"} =>
    /\ Len(learners) = args.n_estimators
    /\ \A i \in 1..Len(learners) : learners[i].id = i
    /\ \A i, j \in 1..Len(learners) : learners[i].id = learners[j].id => i = j

\* an evaluate has returned after a fit trained every learner
C8_Witness ==
  /\ pc = "idle" /\ done = "evaluate"
  /\ N = MaxEstimators
  /\ \A i \in 1..N : grad[i] > 0

\* C9: in a training step of learner k the passes of the learners i < k run
\* without gradient tracking, the pass of learner k runs with it, and the
\* backward pass changes the gradient accumulators of learner k only.
C9_EarlierLearnersFrozen ==
  [][/\ InFit' =>
          \A q \in DOMAIN passes' :
            /\ passes'[q].idx < learner_idx' => ~passes'[q].grad
            /\ passes'[q].idx = learner_idx' => passes'[q].grad
     /\ pc = "fit_backward" =>
          \A i \in 1..Len(grad) : i - 1 # learner_idx => grad'[i] = grad[i]]_vars

\* actions of fit left before it returns: four per remaining batch
FitLeft ==
  LET B == NumBatches(loader)
      batches == ((N - 1 - learner_idx) * args.epochs + (args.epochs - 1 - epoch)) * B
                   + (B - 1 - batch_idx)
  IN  4 * batches + (CASE pc = "fit_residual" -> 4 [] pc = "fit_forward" -> 3
                       [] pc = "fit_backward" -> 2 [] OTHER -> 1)

\* C10: fit returns after exactly n_estimators * epochs * B optimizer steps,
\* epochs * B per learner; each step follows a residual computed for its
\* batch and a zeroing of the learner's gradients, and the batches of an
\* epoch are consumed in the loader's order.
C10_StepCount ==
  [][/\ (~InFit /\ InFit') =>
          /\ FitLeft' = 4 * args.n_estimators * args.epochs * NumBatches(loader')
          /\ SumSeq(steps') = 0
     /\ InFit =>
          /\ IF FitLeft = 1 THEN pc' = "idle" /\ done' = "fit"
             ELSE InFit' /\ FitLeft' = FitLeft - 1
          /\ SumSeq(steps') = SumSeq(steps) + (IF pc = "fit_step" THEN 1 ELSE 0)
          /\ pc = "fit_residual" =>
               /\ y_residual = <<>>
               /\ Len(y_residual') = Len(BatchY(loader, batch_idx, D))
               /\ consumed' = [r \in 1..(batch_idx + 1) |-> r - 1]
          /\ pc = "fit_step" =>
               /\ y_residual # <<>>
               /\ grad[learner_idx + 1] = 1
               /\ steps'[learner_idx + 1] = steps[learner_idx + 1] + 1
     /\ (pc' = "idle" /\ done' = "fit") =>
          /\ \A i \in 1..N : steps'[i] = args.epochs * NumBatches(loader')
          /\ SumSeq(steps') = args.n_estimators * args.epochs * NumBatches(loader')]_vars

\* a fit over two batches per epoch has returned
C10_Witness ==
  /\ pc = "idle" /\ done = "fit"
  /\ NumBatches(loader) = 2 /\ N = MaxEstimators
  /\ SumSeq(steps) = N * args.epochs * 2
====
